---------------------------- MODULE Spec2Model ----------------------------
(***************************************************************************)
(* Batch orchestration of PyFluxPro (scripts/pfp_batch.py): the level      *)
(* runners do_<level>_batch, the level loop do_levels_batch and the        *)
(* per-site fan-out do_sites_batch / do_sites_batch_dispatcher.            *)
(*                                                                         *)
(* The collaborators (pfp_io, pfp_compliance, pfp_levels, pfp_plot, ...)   *)
(* are opaque calls: each returns or raises, chosen nondeterministically.  *)
(***************************************************************************)
EXTENDS Integers, Sequences, FiniteSets, TLC

VARIABLES
    stop_flag,   \* main_ui.stop_flag, set by an external actor (the GUI thread)
    levels,      \* the declared level sequence, Options/levels of the batch file
    sections,    \* the level names that cf_batch["Levels"] has an entry for
    cf_level,    \* keys of cf_batch["Levels"][level] in declaration order
    cf_options,  \* the Options section the control files of cf_level declare
    pc,          \* position of the sequential session
    lvl,         \* index into levels of do_levels_batch's for loop
    order,       \* the key list a runner iterates over
    idx,         \* index into order of the runner's for loop
    cur,         \* the manifest inside the try block
    log,         \* what happened to each manifest of the current level run
    ran,         \* the runner calls made by do_levels_batch, with how each ended
    stop_at,     \* where the session was when stop_flag was set
    nsites,      \* number of sites in main_ui.cfg["Sites"]
    nentries,    \* number of control files of each site
    may_fail,    \* the sites with a control file that can make the dispatcher raise
    next_chunk,  \* the next task of pool.map still in the task queue
    site,        \* per site: the state of its pipeline and the entries dispatched
    parent,      \* position of do_sites_batch, or "worker" inside a site worker
    cfg_site,    \* item.cfg["Sites"][item.site]: the site's entries as declared
    item_stop_flag, \* item.stop_flag of the Bunch a site worker is given
    entry,       \* index of do_sites_batch_dispatcher's for loop
    dispatched,  \* what the dispatcher did with each entry it reached
    mode,        \* main_ui.mode as do_levels_batch finds it
    cf_batch,    \* which of Options and Options/levels the batch file has
    entry_msg,   \* the error do_levels_batch logged before its loop
    mpt_pc,      \* position of run_mpt_code
    mpt_in,      \* its inputs: cf["Variables"] labels, time step, years of data
    yr,          \* index of run_mpt_code's loop over years
    out_file_paths, \* the years that run_mpt_code has recorded a path for
    calls,       \* the calls of the executable made, with what each left
    mptlogfile,  \* the state of the log file object of run_mpt_code
    mpt_read,    \* the output files read_mpt_output has opened, with their kind
    ustar_results, \* ustar_results["Years"]: each year key with its sections
    workbook,    \* whether xl_write_mpt has written the results workbook
    rp_pc,       \* which functions of pfp_rp are being applied, or "raised"
    rp_in,       \* the arguments they are applied to
    rp_out       \* the series or dictionaries they have returned

\* the state of the per-site fan-out
site_vars == <<nsites, nentries, may_fail, next_chunk, site, parent>>

\* the state of the sequential session
seq_vars ==
    <<levels, sections, cf_level, cf_options, pc, lvl, order, idx, cur, log, ran, stop_at>>

\* the state of one call of do_sites_batch_dispatcher
disp_vars == <<cfg_site, item_stop_flag, entry, dispatched>>

\* the state of the entry of do_levels_batch
entry_vars == <<mode, cf_batch, entry_msg>>

\* the state of one call of run_mpt_code
mpt_vars ==
    <<mpt_pc, mpt_in, yr, out_file_paths, calls, mptlogfile, mpt_read, ustar_results,
      workbook>>

\* the state of the calls of pfp_rp functions
rp_vars == <<rp_pc, rp_in, rp_out>>

vars == <<stop_flag, seq_vars, site_vars, disp_vars, entry_vars, mpt_vars, rp_vars>>

\* no function of pfp_rp is being applied
RpIdle ==
    /\ rp_pc = "idle"
    /\ rp_in = <<>>
    /\ rp_out = <<>>

\* a batch file with an Options section that has a levels entry
WithLevels == [has_options |-> TRUE, has_levels |-> TRUE]

\* do_levels_batch has read the level list of a batch-mode session
EntryPassed ==
    /\ mode = "batch"
    /\ cf_batch = WithLevels
    /\ entry_msg = ""

NoMptInput == [labels |-> {}, ts |-> 0, years |-> <<>>]

\* run_mpt_code is not running
MptIdle ==
    /\ mpt_pc = "idle"
    /\ mpt_in = NoMptInput
    /\ yr = 0
    /\ out_file_paths = {}
    /\ calls = <<>>
    /\ mptlogfile = "unopened"
    /\ mpt_read = <<>>
    /\ ustar_results = {}
    /\ workbook = "none"

---------------------------------------------------------------------------
(* Bounds of the model *)

\* longest ControlFileSet handed to a runner
MaxManifests == 3
\* longest declared level sequence
MaxLevels == 2
\* longest ControlFileSet of a session that declares several levels
MaxBatchManifests == 1
\* most sites of a per-site batch
MaxSites == 7
\* most control files of one site
MaxEntries == 2
\* most entries of the site whose dispatcher call is followed step by step
MaxSiteEntries == 3

---------------------------------------------------------------------------
(* Ordinal keys: strings of decimal digits, modelled as digit sequences *)

\* "1", "2", "3", "10"
KeyPool == {<<1>>, <<2>>, <<3>>, <<1, 0>>}

RECURSIVE KeyInt(_)
\* int(key)
KeyInt(k) ==
    IF k = <<>> THEN 0
    ELSE 10 * KeyInt(SubSeq(k, 1, Len(k) - 1)) + k[Len(k)]

\* place x behind every element of the sorted list s whose int is not larger
RECURSIVE InsertByInt(_, _)
InsertByInt(x, s) ==
    IF s = <<>> THEN <<x>>
    ELSE IF KeyInt(x) < KeyInt(Head(s)) THEN <<x>> \o s
    ELSE <<Head(s)>> \o InsertByInt(x, Tail(s))

\* k1 sorts before k2 as text
RECURSIVE TextLess(_, _)
TextLess(k1, k2) ==
    IF k2 = <<>> THEN FALSE
    ELSE IF k1 = <<>> THEN TRUE
    ELSE IF Head(k1) # Head(k2) THEN Head(k1) < Head(k2)
    ELSE TextLess(Tail(k1), Tail(k2))

RECURSIVE InsertAsText(_, _)
InsertAsText(x, s) ==
    IF s = <<>> THEN <<x>>
    ELSE IF TextLess(x, Head(s)) THEN <<x>> \o s
    ELSE <<Head(s)>> \o InsertAsText(x, Tail(s))

RECURSIVE SortedAsText(_)
\* sorted(list(cf_level.keys())): the sort without key=int
SortedAsText(s) ==
    IF s = <<>> THEN <<>>
    ELSE InsertAsText(s[Len(s)], SortedAsText(SubSeq(s, 1, Len(s) - 1)))

RECURSIVE SortedByInt(_)
\* sorted(list(cf_level.keys()), key=int): a stable sort on the integer value
SortedByInt(s) ==
    IF s = <<>> THEN <<>>
    ELSE InsertByInt(s[Len(s)], SortedByInt(SubSeq(s, 1, Len(s) - 1)))

\* list(cf_level.keys()): the declaration order
DeclaredOrder(s) == s

\* the ControlFileSets: every duplicate-free key list
ControlFileSets ==
    {s \in UNION {[1..n -> KeyPool] : n \in 0..MaxManifests} :
        \A i, j \in DOMAIN s : i # j => s[i] # s[j]}

---------------------------------------------------------------------------
(* Level identifiers and the properties of each runner *)

processing_levels ==
    {"l1", "l2", "l3", "ecostress", "fluxnet", "reddyproc",
     "concatenate", "climatology", "cpd_barr", "cpd_mchugh", "cpd_mcnew",
     "mpt", "l4", "l5", "l6"}

\* what an operator may write in Options/levels
LevelIds == processing_levels \cup {"L1", "l7"}

\* str.lower() on the identifiers of LevelIds
Lower(s) == IF s = "L1" THEN "l1" ELSE s

\* every runner sorting its keys
EveryRunnerSorts == processing_levels

\* runners that iterate over sorted(..., key=int)
NumericOrdered == {"concatenate", "l4", "l5"}

\* runners that test os.path.isfile before the stop flag
ChecksIsFile == {"concatenate", "climatology", "l4", "l5", "l6"}

\* runners whose per-manifest body is inside try/except Exception
HasTry == processing_levels \ {"fluxnet", "reddyproc"}

\* runners that call pfp_compliance.<level>_update_controlfile
Validates == processing_levels \ {"ecostress", "fluxnet", "reddyproc"}

\* runners that return when NetCDFRead reports a non-zero return code
ReadsInput == {"l2", "l3", "l4", "l5", "l6"}

\* runners that write the handler's result with NetCDFWrite
WritesOutput == {"l1", "l2", "l3", "l4", "l5", "l6"}

\* every runner plotting fingerprints
EveryRunnerPlots == processing_levels

\* runners that end the try block with do_batch_fingerprints
Fingerprints == {"concatenate", "l4", "l5"}

\* runners that set Options/call_mode and Options/show_plots between the
\* compliance update and the handler call
InjectsOptions ==
    {"l2", "l3", "cpd_barr", "cpd_mchugh", "cpd_mcnew", "mpt", "l4", "l5", "l6"}

\* the list a runner iterates over
IterationOrder(kind, cf) ==
    IF kind \in NumericOrdered THEN SortedByInt(cf) ELSE DeclaredOrder(cf)

---------------------------------------------------------------------------
(* The collaborators called inside a runner's per-manifest body *)

\* pfp_io.get_controlfilecontents: a file that exists is parsed into a usable
\* structure or the parser raises; a missing file never yields a usable one
LoadOutcomes(exists) ==
    IF exists THEN {"usable", "raise"} ELSE {"unusable", "raise"}

\* a runner that gives up when the concatenation manifest does not parse
ParseRefusalReturns == [stage |-> "parse", end |-> "return"]

\* if not info["NetCDFConcatenate"]["OK"]: logger.error(msg); continue
ParseRefusal == [stage |-> "parse", end |-> "continue"]

\* how the statements after the load can end, as [stage, end]:
\*   end = "continue": an explicit continue (validation or parsing refused)
\*   end = "return"  : the return on a non-zero NetCDFRead return code
\*   end = "raise"   : the named call raised an exception derived from
\*                     Exception
\*   end = "exit"    : the named call raised SystemExit or KeyboardInterrupt,
\*                     which are not derived from Exception
\*   end = "ok"      : the body ran to its last statement
BodyOutcomes(kind, cf) ==
    IF cf = "unusable"
    THEN IF kind \in Validates
         THEN {[stage |-> "validate", end |-> "continue"],
               [stage |-> "validate", end |-> "raise"]}
         ELSE {[stage |-> "handler", end |-> "raise"]}
    ELSE (IF kind \in Validates
          THEN {[stage |-> "validate", end |-> "continue"]} ELSE {})
         \cup (IF kind = "concatenate"
               THEN {ParseRefusal} ELSE {})
         \cup (IF kind \in ReadsInput
               THEN {[stage |-> "read", end |-> "raise"],
                     [stage |-> "read", end |-> "return"]} ELSE {})
         \cup {[stage |-> "handler", end |-> "raise"]}
         \cup (IF kind \in WritesOutput
               THEN {[stage |-> "write", end |-> "raise"]} ELSE {})
         \cup (IF kind \in Fingerprints
               THEN {[stage |-> "fingerprint", end |-> "raise"]} ELSE {})
         \cup {[stage |-> "end", end |-> "ok"]}

\* a call that can raise an exception can raise SystemExit or
\* KeyboardInterrupt as well
WithExits(outcomes) ==
    outcomes \cup {[stage |-> o.stage, end |-> "exit"] :
                      o \in {p \in outcomes : p.end = "raise"}}

\* every way one pass through the per-manifest body can end; before the
\* handler is called the load, the validation and, in the runners that read
\* their input, get_infilenamefromcf and NetCDFRead can raise
TryOutcomes(kind, exists) ==
    WithExits({[stage |-> "load", end |-> "raise"]}
              \cup UNION {BodyOutcomes(kind, cf) : cf \in LoadOutcomes(exists) \ {"raise"}})

\* a control file without an Options section
NoOptions == [call_mode |-> "absent", show_plots |-> "absent"]

\* what a control file may declare in its Options section
DeclaredOptions ==
    {NoOptions,
     [call_mode |-> "interactive", show_plots |-> "Yes"],
     [call_mode |-> "batch", show_plots |-> "No"]}

\* if "Options" not in cf: cf["Options"] = {}
\* cf["Options"]["call_mode"] = "batch"; cf["Options"]["show_plots"] = "No"
Injected(options) == [options EXCEPT !.call_mode = "batch", !.show_plots = "No"]

\* the stages that lie behind the lines that set the Options
AfterInjection == {"read", "handler", "write", "fingerprint", "end"}

\* the Options of the manifest when its body ended at stage
OptionsAt(kind, stage, options) ==
    IF kind \in InjectsOptions /\ stage \in AfterInjection
    THEN Injected(options) ELSE options

\* the stages at which the level handler has been called
HandlerStages == {"handler", "write", "fingerprint", "end"}

\* a loop that never looks at the stop flag
NeverBreaks(flag) == FALSE

\* a stop check that is made before the first manifest only
BreaksOnlyAtFirst(flag) == flag /\ idx <= 1

\* if main_ui.stop_flag: break
BreaksOnStop(flag) == flag

\* what an exception raised in the per-manifest body does to the runner:
\* "except Exception" logs an exception derived from Exception and
\* continues; SystemExit and KeyboardInterrupt pass the clause, and every
\* exception leaves a runner that has no try
OnException(kind, end) ==
    IF kind \in HasTry /\ end = "raise" THEN "continue" ELSE "escape"

---------------------------------------------------------------------------
(* do_levels_batch and the runners *)

\* the membership test without lower()
RecognisedAsSpelled(level) == level \in processing_levels

\* level.lower() in processing_levels
Recognised(level) == Lower(level) \in processing_levels

\* a loop that walks the declared list from its end
LevelsReversed(ls) == [i \in DOMAIN ls |-> ls[Len(ls) + 1 - i]]

\* for level in levels: the levels in the order of Options/levels
LevelSequence(ls) == ls

\* a loop that clears the flag it has read
StopFlagCleared(flag) == FALSE

\* do_levels_batch only reads main_ui.stop_flag: the flag after the loop head
StopFlagKept(flag) == flag

\* the level whose runner is running
Kind == Lower(LevelSequence(levels)[lvl])

\* a worker that polls the session's flag
SessionStopFlag == stop_flag

\* main_ui.stop_flag as a runner reads it: main_ui is the session when
\* do_levels_batch calls the runner and the site's Bunch when the dispatcher does
MainUiStopFlag == IF parent = "worker" THEN item_stop_flag ELSE stop_flag

\* where a runner returns to
Caller == IF parent = "worker" THEN "dispatch" ELSE "levels"

NoStop == [run |-> 0, idx |-> 0, pc |-> "none"]

NoManifest == [key |-> <<>>, exists |-> FALSE]

InitWith(lists, sets) ==
    /\ stop_flag = FALSE
    /\ levels \in lists
    /\ sections \in SUBSET ({levels[i] : i \in DOMAIN levels}
                            \cup {Lower(levels[i]) : i \in DOMAIN levels})
    /\ cf_level \in sets
    /\ pc = "levels"
    /\ lvl = 1
    /\ order = <<>>
    /\ idx = 0
    /\ cur = NoManifest
    /\ log = <<>>
    /\ ran = <<>>
    /\ stop_at = NoStop
    /\ nsites = 0
    /\ nentries = 0
    /\ may_fail = {}
    /\ next_chunk = 1
    /\ site = <<>>
    /\ parent = "none"
    /\ cfg_site = <<>>
    /\ item_stop_flag = FALSE
    /\ entry = 0
    /\ dispatched = <<>>
    /\ EntryPassed
    /\ MptIdle
    /\ RpIdle

\* one level run over every ControlFileSet
Init ==
    /\ InitWith({<<l>> : l \in LevelIds}, ControlFileSets)
    /\ cf_options = NoOptions

\* the external actor sets main_ui.stop_flag
SetStop ==
    /\ pc \in {"levels", "dispatch", "iter", "try"}
    /\ ~stop_flag
    /\ stop_flag' = TRUE
    /\ stop_at' = [run |-> Len(ran) + 1, idx |-> idx, pc |-> pc]
    /\ UNCHANGED <<levels, sections, cf_level, cf_options, pc, lvl, order, idx, cur, log, ran>>
    /\ UNCHANGED <<site_vars, disp_vars, entry_vars, mpt_vars, rp_vars>>

\* one pass through the head of do_levels_batch's for loop
LevelsStep ==
    /\ pc = "levels"
    /\ IF lvl > Len(levels) \/ BreaksOnStop(stop_flag)
       THEN /\ pc' = "returned"
            /\ UNCHANGED <<lvl, order, idx, log>>
       ELSE IF ~Recognised(LevelSequence(levels)[lvl])
       THEN /\ lvl' = lvl + 1
            /\ UNCHANGED <<pc, order, idx, log>>
       ELSE IF LevelSequence(levels)[lvl] \notin sections
       THEN \* cf_batch["Levels"][level] raises KeyError
            /\ pc' = "raised"
            /\ UNCHANGED <<lvl, order, idx, log>>
       ELSE /\ pc' = "iter"
            /\ order' = IterationOrder(Lower(LevelSequence(levels)[lvl]), cf_level)
            /\ idx' = 1
            /\ log' = <<>>
            /\ UNCHANGED lvl
    /\ stop_flag' = StopFlagKept(stop_flag)
    /\ UNCHANGED <<levels, sections, cf_level, cf_options, cur, ran, stop_at>>
    /\ UNCHANGED <<site_vars, disp_vars, entry_vars, mpt_vars, rp_vars>>

\* the runner returns to do_levels_batch
RunnerReturns ==
    /\ pc' = Caller
    /\ lvl' = lvl + 1
    /\ ran' = Append(ran, [level |-> LevelSequence(levels)[lvl], exit |-> "returned"])

\* the head of a runner's for loop: the isfile test where the runner has
\* one, then the stop flag
RunnerIter ==
    /\ pc = "iter"
    /\ IF idx > Len(order)
       THEN RunnerReturns /\ UNCHANGED <<idx, cur, log>>
       ELSE \E exists \in BOOLEAN :
            IF Kind \in ChecksIsFile /\ ~exists
            THEN /\ log' = Append(log, [key |-> order[idx], exists |-> FALSE,
                                        stage |-> "isfile", end |-> "continue",
                                        options |-> NoOptions])
                 /\ idx' = idx + 1
                 /\ UNCHANGED <<pc, lvl, cur, ran>>
            ELSE IF BreaksOnStop(MainUiStopFlag)
            THEN RunnerReturns /\ UNCHANGED <<idx, cur, log>>
            ELSE /\ pc' = "try"
                 /\ cur' = [key |-> order[idx], exists |-> exists]
                 /\ UNCHANGED <<lvl, idx, log, ran>>
    /\ UNCHANGED <<stop_flag, levels, sections, cf_level, cf_options, order, stop_at>>
    /\ UNCHANGED <<site_vars, disp_vars, entry_vars, mpt_vars, rp_vars>>

\* the per-manifest body of a runner, from the load to its last statement
RunnerTry ==
    /\ pc = "try"
    /\ \E o \in TryOutcomes(Kind, cur.exists) :
        /\ log' = Append(log, [key |-> cur.key, exists |-> cur.exists,
                               stage |-> o.stage, end |-> o.end,
                               options |-> OptionsAt(Kind, o.stage, cf_options)])
        /\ IF o.end = "return"
           THEN RunnerReturns /\ UNCHANGED idx
           ELSE IF o.end \in {"raise", "exit"} /\ OnException(Kind, o.end) = "escape"
           THEN /\ pc' = "raised"
                /\ ran' = Append(ran, [level |-> LevelSequence(levels)[lvl],
                                        exit |-> "raised"])
                /\ UNCHANGED <<lvl, idx>>
           ELSE /\ pc' = "iter"
                /\ idx' = idx + 1
                /\ UNCHANGED <<lvl, ran>>
    /\ cur' = NoManifest
    /\ UNCHANGED <<stop_flag, levels, sections, cf_level, cf_options, order, stop_at>>
    /\ UNCHANGED <<site_vars, disp_vars, entry_vars, mpt_vars, rp_vars>>

Next == SetStop \/ LevelsStep \/ RunnerIter \/ RunnerTry

Spec == Init /\ [][Next]_vars

\* every declared level sequence
LevelLists == UNION {[1..n -> LevelIds] : n \in 1..MaxLevels}

\* several levels, each over the same short ControlFileSet "1", "2", ...
InitLevels ==
    /\ InitWith(LevelLists, {[i \in 1..n |-> <<i>>] : n \in 0..MaxBatchManifests})
    /\ cf_options = NoOptions

\* one level run over a short ControlFileSet whose control files declare any
\* of the Options
InitOptions ==
    /\ InitWith({<<l>> : l \in LevelIds},
                {[i \in 1..n |-> <<i>>] : n \in 0..MaxBatchManifests + 1})
    /\ cf_options \in DeclaredOptions

SpecOptions == InitOptions /\ [][Next]_vars

SpecLevels == InitLevels /\ [][Next]_vars

\* do_levels_batch is one sequential thread: it takes its next step whenever
\* it has one, the calls it makes (the handler call included) terminating
Progress ==
    /\ WF_vars(LevelsStep)
    /\ WF_vars(RunnerIter)
    /\ WF_vars(RunnerTry)

SpecLive == InitLevels /\ [][Next]_vars /\ Progress

---------------------------------------------------------------------------
(* do_sites_batch: pool.map of do_sites_batch_dispatcher over the sites *)

\* Pool(5)
PoolSize == 5

\* the chunk size pool.map gives its tasks:
\* divmod(len(iterable), len(pool) * 4), one more when there is a remainder
ChunkSize(n) ==
    IF n % (PoolSize * 4) # 0 THEN n \div (PoolSize * 4) + 1
    ELSE n \div (PoolSize * 4)

\* the number of tasks pool.map queues for n sites
NumChunks(n) ==
    IF n = 0 THEN 0 ELSE (n + ChunkSize(n) - 1) \div ChunkSize(n)

\* the task that holds site s
ChunkOf(s) == (s - 1) \div ChunkSize(nsites) + 1

\* the site pipelines in progress
InProgress == {s \in 1..nsites : site[s].st = "running"}

\* the tasks a worker process is running
BusyChunks == {ChunkOf(s) : s \in InProgress}

\* a pool that starts a process for every task
AlwaysFree(busy) == TRUE

\* a worker process of the pool is idle
WorkerFree(busy) == Cardinality(busy) < PoolSize

\* the call for site s raised at entry e: the rest of its task is not run
\* (a task is one list(map(func, chunk)) inside the worker)
AfterRaise(s, e) ==
    [t \in 1..nsites |->
        IF t = s THEN [st |-> "raised", done |-> e - 1]
        ELSE IF ChunkOf(t) = ChunkOf(s) /\ t > s
        THEN [st |-> "dropped", done |-> 0]
        ELSE site[t]]

\* the call for site s returned: the worker goes on with the next call of
\* its task, if there is one
AfterReturn(s) ==
    [t \in 1..nsites |->
        IF t = s THEN [st |-> "returned", done |-> nentries]
        ELSE IF ChunkOf(t) = ChunkOf(s) /\ t = s + 1
        THEN [st |-> "running", done |-> 0]
        ELSE site[t]]

InitSitesWith(counts, entries) ==
    /\ stop_flag = FALSE
    /\ levels = <<>>
    /\ sections = {}
    /\ cf_level = <<>>
    /\ cf_options = NoOptions
    /\ pc = "none"
    /\ lvl = 1
    /\ order = <<>>
    /\ idx = 0
    /\ cur = NoManifest
    /\ log = <<>>
    /\ ran = <<>>
    /\ stop_at = NoStop
    /\ nsites \in counts
    /\ nentries \in entries
    /\ next_chunk = 1
    /\ site = [s \in 1..nsites |-> [st |-> "queued", done |-> 0]]
    /\ parent = "map"
    /\ cfg_site = <<>>
    /\ item_stop_flag = FALSE
    /\ entry = 0
    /\ dispatched = <<>>
    /\ EntryPassed
    /\ MptIdle
    /\ RpIdle

\* any site may be faulty
AnySite(n) == {1..n}

\* no site is faulty, or one site of the first task is
OneOfFirstTask(n) == {{}} \cup {{s} : s \in 1..ChunkSize(n)}

\* up to MaxSites sites, any of which may make its dispatcher raise
InitSites ==
    /\ InitSitesWith(1..MaxSites, 1..MaxEntries)
    /\ may_fail \in AnySite(nsites)

\* the smallest batch that pool.map cuts into tasks of two sites
InitChunked ==
    /\ InitSitesWith({PoolSize * 4 + 1}, {1})
    /\ may_fail \in OneOfFirstTask(nsites)

\* the external actor sets main_ui.stop_flag while do_sites_batch runs
SetStopSites ==
    /\ parent = "map"
    /\ ~stop_flag
    /\ stop_flag' = TRUE
    /\ UNCHANGED <<seq_vars, site_vars, disp_vars, entry_vars, mpt_vars, rp_vars>>

\* an idle worker process takes the next task from the queue and calls
\* do_sites_batch_dispatcher for its first site
TakeTask ==
    /\ parent = "map"
    /\ next_chunk <= NumChunks(nsites)
    /\ WorkerFree(BusyChunks)
    /\ LET first == (next_chunk - 1) * ChunkSize(nsites) + 1
       IN site' = [site EXCEPT ![first] = [st |-> "running", done |-> 0]]
    /\ next_chunk' = next_chunk + 1
    /\ UNCHANGED <<stop_flag, seq_vars, disp_vars, entry_vars, mpt_vars, rp_vars, nsites, nentries, may_fail, parent>>

\* do_sites_batch_dispatcher for site s: for each entry it loads the control
\* file, reads its level and calls the level's runner; loading entry e or
\* reading its level may raise, and so may SystemExit or KeyboardInterrupt
\* leave the runner of entry e, which ends the call
RunSite(s) ==
    /\ site[s].st = "running"
    /\ \/ /\ s \in may_fail
          /\ \E e \in 1..nentries : site' = AfterRaise(s, e)
       \/ site' = AfterReturn(s)
    /\ UNCHANGED <<stop_flag, seq_vars, disp_vars, entry_vars, mpt_vars, rp_vars, nsites, nentries, may_fail, next_chunk, parent>>

\* pool.map returns once every task is done: it returns the results, or
\* raises the first exception a task ended with (when that exception does
\* not reach the parent this step is never taken)
MapReturns ==
    /\ parent = "map"
    /\ next_chunk > NumChunks(nsites)
    /\ InProgress = {}
    /\ parent' = IF \E s \in 1..nsites : site[s].st = "raised"
                 THEN "raised" ELSE "returned"
    /\ UNCHANGED <<stop_flag, seq_vars, disp_vars, entry_vars, mpt_vars, rp_vars, nsites, nentries, may_fail, next_chunk, site>>

NextSites ==
    \/ SetStopSites
    \/ TakeTask
    \/ \E s \in 1..nsites : RunSite(s)
    \/ MapReturns

SpecSites == InitSites /\ [][NextSites]_vars

SpecChunked == InitChunked /\ [][NextSites]_vars

\* pool.map returns the results of tasks that all returned
MapCompletes ==
    /\ MapReturns
    /\ \A s \in 1..nsites : site[s].st # "raised"

\* an idle worker process takes the next task, the running pipelines
\* terminate and pool.map returns when all tasks are done and none ended by
\* an exception; after an exception pool.map raises it again only when the
\* worker could send it and the parent could rebuild it, else (SystemExit ends
\* the worker process, an exception that does not unpickle ends the pool's
\* result handler) pool.map waits for ever
PoolProgress ==
    /\ WF_vars(TakeTask)
    /\ WF_vars(\E s \in 1..nsites : RunSite(s))
    /\ WF_vars(MapCompletes)

SpecChunkedLive == InitChunked /\ [][NextSites]_vars /\ PoolProgress

---------------------------------------------------------------------------
(* do_sites_batch_dispatcher: the pipeline of one site inside its worker *)

\* the levels of the dispatcher's if/elif chain
DispatcherLevels ==
    {"l1", "l2", "l3", "concatenate", "climatology", "cpd_barr", "cpd_mchugh",
     "cpd_mcnew", "mpt", "l4", "l5", "l6"}

\* what the control files of a site declare as their level
SiteLevelIds == {"L1", "concatenate", "fluxnet", "l7"}

\* the sites' entries: duplicate-free keys in declaration order, each with
\* the level its control file declares
SiteManifests ==
    {s \in UNION {[1..n -> [key : KeyPool, level : SiteLevelIds]] :
                        n \in 0..MaxSiteEntries} :
        \A i, j \in DOMAIN s : i # j => s[i].key # s[j].key}

\* list(cfg_site.keys())
SiteKeys(entries) == [i \in DOMAIN entries |-> entries[i].key]

\* a dispatcher that takes the entries as declared
SiteOrderDeclared(entries) == SiteKeys(entries)

\* sorted(list(cfg_site.keys()), key=int)
SiteOrder(entries) == SortedByInt(SiteKeys(entries))

\* str(cfg["level"]) of the control file cfg_site[n]
LevelOf(entries, n) ==
    entries[CHOOSE i \in DOMAIN entries : entries[i].key = n].level

\* a chain that ends in the call of a runner for every level
DispatchesAll(level) == TRUE

\* level.lower() is one of the levels of the if/elif chain
Dispatchable(level) == Lower(level) \in DispatcherLevels

InitDispatch ==
    /\ stop_flag = FALSE
    /\ levels = <<>>
    /\ sections = {}
    /\ cf_level = <<>>
    /\ cf_options = NoOptions
    /\ pc = "dispatch"
    /\ lvl = 1
    /\ order = <<>>
    /\ idx = 0
    /\ cur = NoManifest
    /\ log = <<>>
    /\ ran = <<>>
    /\ stop_at = NoStop
    /\ nsites = 0
    /\ nentries = 0
    /\ may_fail = {}
    /\ next_chunk = 1
    /\ site = <<>>
    /\ parent = "worker"
    /\ cfg_site \in SiteManifests
    /\ item_stop_flag = FALSE
    /\ entry = 0
    /\ dispatched = <<>>
    /\ EntryPassed
    /\ MptIdle
    /\ RpIdle

\* one pass through the dispatcher's for loop up to the call of the runner:
\* load the control file, read its level, build the single-entry cf_level
DispatchStep ==
    /\ pc = "dispatch"
    /\ IF entry = Len(cfg_site)
       THEN /\ pc' = "returned"
            /\ UNCHANGED <<entry, dispatched, levels, lvl, cf_level, order, idx, log>>
       ELSE LET n == SiteOrder(cfg_site)[entry + 1]
                level == LevelOf(cfg_site, n)
            IN /\ entry' = entry + 1
               /\ \/ \* get_controlfilecontents or cfg["level"] raises
                     /\ pc' = "raised"
                     /\ dispatched' = Append(dispatched,
                            [key |-> n, level |-> level, runner |-> "none", end |-> "raise"])
                     /\ UNCHANGED <<levels, lvl, cf_level, order, idx, log>>
                  \/ IF Dispatchable(level)
                     THEN /\ pc' = "iter"
                          /\ levels' = <<level>>
                          /\ lvl' = 1
                          /\ cf_level' = <<n>>
                          /\ order' = IterationOrder(Lower(level), <<n>>)
                          /\ idx' = 1
                          /\ log' = <<>>
                          /\ dispatched' = Append(dispatched,
                                 [key |-> n, level |-> level,
                                  runner |-> Lower(level), end |-> "called"])
                     ELSE \* logger.error(" Unrecognised batch processing level ...")
                          /\ dispatched' = Append(dispatched,
                                 [key |-> n, level |-> level, runner |-> "none", end |-> "error"])
                          /\ UNCHANGED <<pc, levels, lvl, cf_level, order, idx, log>>
    /\ UNCHANGED <<stop_flag, sections, cf_options, cur, ran, stop_at>>
    /\ UNCHANGED <<site_vars, cfg_site, item_stop_flag, entry_vars, mpt_vars, rp_vars>>

NextDispatch == SetStop \/ DispatchStep \/ RunnerIter \/ RunnerTry

SpecDispatch == InitDispatch /\ [][NextDispatch]_vars

\* the orchestrator entered by any of its three functions: do_levels_batch
\* on a batch file, do_sites_batch on the sites, or
\* do_sites_batch_dispatcher on one site inside a worker
InitBatch == InitLevels \/ InitSites \/ InitDispatch

NextBatch ==
    \/ SetStop
    \/ LevelsStep
    \/ DispatchStep
    \/ RunnerIter
    \/ RunnerTry
    \/ SetStopSites
    \/ TakeTask
    \/ \E s \in 1..nsites : RunSite(s)
    \/ MapReturns

SpecBatch == InitBatch /\ [][NextBatch]_vars

---------------------------------------------------------------------------
(* Vocabulary of the properties *)

\* a runner call has ended and log is the log of that call
RunEnded == pc \in {"levels", "returned", "raised"} /\ ran # <<>>

\* the runner call that log belongs to, counted from 1
CurrentRun == IF pc \in {"iter", "try"} THEN Len(ran) + 1 ELSE Len(ran)

\* the level of the runner call that log belongs to
LogKind ==
    IF pc \in {"iter", "try"} THEN Lower(levels[lvl])
    ELSE IF ran # <<>> THEN Lower(ran[Len(ran)].level)
    ELSE "none"

\* the level handler was called for the manifest of log record r
HandlerInvoked(r) == r.stage \in HandlerStages

\* the flag was set during the runner call that log belongs to
StoppedInThisRun == stop_at.pc \in {"iter", "try"} /\ stop_at.run = CurrentRun

\* the last manifest that had passed the stop check when the flag was set
LastAdmitted == IF stop_at.pc = "try" THEN stop_at.idx ELSE stop_at.idx - 1

IsKnownId(l) == Lower(l) \in processing_levels

\* SystemExit or KeyboardInterrupt was raised in the runner call that log
\* belongs to
Interrupted == \E i \in DOMAIN log : log[i].end = "exit"

RanLevels == [i \in DOMAIN ran |-> ran[i].level]

---------------------------------------------------------------------------
(* Properties *)

\* C1: failure isolation. When a level run has ended with the stop flag
\* never set and the handler raised for some manifest, every manifest of the
\* set was still processed, and the handler was invoked for all of them but
\* those skipped for a missing file or a failed validation. Stated for the
\* runs in which neither SystemExit nor KeyboardInterrupt was raised.
C1_FailureIsolation ==
    (/\ RunEnded
     /\ ~stop_flag
     /\ ~Interrupted
     /\ \E i \in DOMAIN log :
            log[i].exists /\ log[i].stage = "handler" /\ log[i].end = "raise")
    => /\ Len(log) = Len(order)
       /\ Cardinality({i \in DOMAIN log : HandlerInvoked(log[i])})
            = Len(order)
              - Cardinality({i \in DOMAIN log :
                    \/ ~log[i].exists /\ ~HandlerInvoked(log[i])
                    \/ log[i].stage = "validate" /\ log[i].end = "continue"})

\* C2: no error raised in the per-manifest loop leaves a runner: every
\* runner call returns normally to do_levels_batch. Stated for the level
\* runs whose manifest files all exist and in which neither SystemExit nor
\* KeyboardInterrupt was raised.
C2_RunnerAlwaysReturns ==
    (/\ \A i \in DOMAIN log : log[i].exists
     /\ ~Interrupted)
    => \A i \in DOMAIN ran : ran[i].exit = "returned"

\* C3: when the stop flag is set before the first manifest's iteration of a
\* level run, no manifest of that run is loaded, validated or handed to the
\* handler: the runner never enters the per-manifest body.
C3_StopBeforeFirst ==
    (StoppedInThisRun /\ stop_at.pc = "iter" /\ stop_at.idx = 1)
    => /\ pc # "try"
       /\ \A i \in DOMAIN log : log[i].stage = "isfile"

C3_Witness ==
    /\ StoppedInThisRun /\ stop_at.pc = "iter" /\ stop_at.idx = 1
    /\ RunEnded
    /\ Len(order) = 3
    /\ LogKind = "l1"
    /\ log = <<>>

\* C4: cooperative cancellation. When the stop flag is set while manifest k
\* is inside the per-manifest body, or after it has completed, the handler is
\* invoked for no manifest after k, and manifest k itself runs through its
\* body: once the body is left, the log holds k's own record.
C4_CooperativeCancel ==
    StoppedInThisRun
    => /\ \A i \in DOMAIN log : i > LastAdmitted => log[i].stage = "isfile"
       /\ (stop_at.pc = "try" /\ pc # "try")
            => /\ Len(log) >= stop_at.idx
               /\ log[stop_at.idx].key = order[stop_at.idx]
               /\ log[stop_at.idx].stage # "isfile"

C4_Witness ==
    /\ StoppedInThisRun /\ stop_at.pc = "try" /\ stop_at.idx = 1
    /\ RunEnded
    /\ Len(order) = 3
    /\ Len(log) = 1
    /\ log[1].stage = "end" /\ log[1].end = "ok"

\* C5: in do_levels_batch an unrecognised level identifier starts no runner
\* and does not end the session: when the loop is at its head, exactly the
\* recognised levels declared so far have been run, a session that returns
\* with the stop flag clear has run every recognised level, and a session
\* that ends by an exception does so at a recognised level.
C5_UnknownLevelSkipped ==
    /\ \A i \in DOMAIN ran : Lower(ran[i].level) \in processing_levels
    /\ pc = "levels" => RanLevels = SelectSeq(SubSeq(levels, 1, lvl - 1), IsKnownId)
    /\ (pc = "returned" /\ ~stop_flag) => RanLevels = SelectSeq(levels, IsKnownId)
    /\ pc = "raised" => lvl \in DOMAIN levels /\ IsKnownId(levels[lvl])

C5_Witness ==
    /\ pc = "returned" /\ ~stop_flag
    /\ levels = <<"l7", "l1">>
    /\ RanLevels = <<"l1">>

\* C6: the runners of concatenate, L4 and L5 process the manifests in
\* ascending order of the integer value of their keys, whatever the
\* declaration order: each manifest once, and "10", "2", "1" as "1", "2", "10".
C6_NumericOrder ==
    LogKind \in NumericOrdered
    => /\ \A i, j \in DOMAIN log :
            i < j => KeyInt(log[i].key) <= KeyInt(log[j].key)
       /\ \A i \in DOMAIN log : \E j \in DOMAIN cf_level : cf_level[j] = log[i].key
       /\ \A i, j \in DOMAIN log : i # j => log[i].key # log[j].key
       /\ (cf_level = << <<1, 0>>, <<2>>, <<1>> >> /\ Len(log) = 3)
            => [i \in DOMAIN log |-> log[i].key] = << <<1>>, <<2>>, <<1, 0>> >>

C6_Witness ==
    /\ LogKind = "concatenate"
    /\ RunEnded
    /\ cf_level = << <<1, 0>>, <<2>>, <<1>> >>
    /\ [i \in DOMAIN log |-> log[i].key] = << <<1>>, <<2>>, <<1, 0>> >>
    /\ \A i \in DOMAIN log : log[i].end = "ok"

\* C10: a manifest whose file is missing is skipped, its handler is never
\* invoked, and the other manifests of the set are still processed. Stated
\* for the runs in which neither SystemExit nor KeyboardInterrupt was raised.
C10_MissingSkipped ==
    (RunEnded /\ ~stop_flag /\ ~Interrupted)
    => /\ \A i \in DOMAIN log : ~log[i].exists => ~HandlerInvoked(log[i])
       /\ (\E i \in DOMAIN log : ~log[i].exists) => Len(log) = Len(order)

\* C7: bounded concurrency. At every instant at most 5 site pipelines are in
\* progress, whatever the number of sites.
C7_BoundedConcurrency == Cardinality(InProgress) <= 5

C7_Witness ==
    /\ nsites = 7
    /\ Cardinality(InProgress) = 5
    /\ \E s \in 1..nsites : site[s].st = "queued"

\* C8: site failure isolation. A site whose worker raises keeps no other
\* submitted site from being run: no site is dropped, and when do_sites_batch
\* has ended every submitted site has been run.
C8_SiteIsolation ==
    /\ \A s \in 1..nsites : site[s].st # "dropped"
    /\ parent \in {"returned", "raised"}
        => \A s \in 1..nsites : site[s].st \in {"returned", "raised"}

\* C9: do_sites_batch returns normally even when site workers raise, and
\* within a site an error on one entry keeps no later entry of the site from
\* being dispatched.
C9_DispatchContained ==
    /\ parent # "raised"
    /\ \A s \in 1..nsites : site[s].st = "raised" => site[s].done + 1 = nentries

---------------------------------------------------------------------------
(* Properties of the runners' per-manifest body and of the session's end *)

\* do_levels_batch has ended
SessionEnded == pc \in {"returned", "raised"}

\* the session ended in the lookup cf_batch["Levels"][level], not in a runner
LookupFailed == pc = "raised" /\ \A i \in DOMAIN ran : ran[i].exit = "returned"

\* cf_batch["Levels"] has an entry for the level under some spelling
HasControlFileSet(level) == \E s \in sections : Lower(s) = Lower(level)

\* Options as the batch run wants them
BatchOptions == [call_mode |-> "batch", show_plots |-> "No"]

\* C11: validation gate. A manifest the compliance update refuses gets no
\* handler call and the runner goes on with the next manifest; and the
\* handler of a level is invoked only on manifests that have passed the
\* level's compliance update, so only in runners that call one.
C11_ValidationGate ==
    \A i \in DOMAIN log :
        /\ (log[i].stage = "validate" /\ log[i].end = "continue")
            => /\ ~HandlerInvoked(log[i])
               /\ (i = Len(log) /\ pc = "iter") => idx = i + 1
        /\ (log[i].exists /\ HandlerInvoked(log[i])) => LogKind \in Validates

\* C16: only the stop flag ends a session early. When do_levels_batch has
\* ended with the flag never set, the runner of the recognised level was
\* called and every manifest of the set was attempted. Stated for the
\* sessions without a configuration defect or an escaping exception: the
\* level has its entry in Levels, its manifest files all exist, its runner
\* catches what the per-manifest body raises, and neither SystemExit nor
\* KeyboardInterrupt was raised.
C16_OnlyStopHaltsEarly ==
    (/\ SessionEnded
     /\ ~stop_flag
     /\ ~Interrupted
     /\ Recognised(levels[1])
     /\ Lower(levels[1]) \in HasTry
     /\ levels[1] \in sections
     /\ \A i \in DOMAIN log : log[i].exists)
    => /\ Len(ran) = 1
       /\ Len(log) = Len(cf_level)

\* C19: batch-mode injection. Whenever the handler of a level has been
\* invoked, the manifest's Options carried call_mode = "batch" and
\* show_plots = "No", whatever the control file declared.
C19_BatchOptionsInjected ==
    \A i \in DOMAIN log :
        (log[i].exists /\ HandlerInvoked(log[i])) => log[i].options = BatchOptions

\* C20: level identifiers are case-insensitive. A recognised level that has
\* a ControlFileSet in Levels, under whatever spelling, does not make
\* do_levels_batch fail at the lookup of that ControlFileSet.
C20_CaseInsensitive ==
    LookupFailed => ~HasControlFileSet(levels[lvl])

\* a manifest file of the current level run was missing or could not be loaded
LoadFailed == \E i \in DOMAIN log : ~log[i].exists \/ log[i].stage = "load"

\* C17: Running -> StopRequested -> Stopped. Once the stop flag is set during
\* do_levels_batch the session reaches Stopped: do_levels_batch returns
\* (stated for the runs whose manifest files exist and load and in which
\* neither SystemExit nor KeyboardInterrupt is raised).
C17_StopLeadsToStopped == stop_flag ~> (pc = "returned" \/ LoadFailed \/ Interrupted)

---------------------------------------------------------------------------
(* Properties of the per-site fan-out *)

\* do_sites_batch_dispatcher has been called for site s
Started(s) == site[s].st \in {"running", "returned", "raised"}

\* C12: in per-site mode cancellation takes effect at the next site not yet
\* handed to a worker: once the stop flag is set, no queued site is started.
C12_NoStartAfterStop ==
    [][stop_flag => \A s \in 1..nsites :
                        site[s].st = "queued" => site'[s].st = "queued"]_vars

\* C18: queueing past the pool size. With more sites than workers every
\* submitted site is eventually started, its pipeline running once.
C18_EverySiteStarted == <>(\A s \in 1..nsites : Started(s))

---------------------------------------------------------------------------
(* Properties of one site's pipeline *)

\* the dispatcher call has ended
DispatchEnded == parent = "worker" /\ pc \in {"returned", "raised"}

\* the runner calls the dispatcher has made
Called == SelectSeq(dispatched, LAMBDA d : d.end = "called")

\* the last runner call has ended and log is its log
LastCallEnded ==
    /\ pc \in {"dispatch", "returned", "raised"}
    /\ dispatched # <<>>
    /\ dispatched[Len(dispatched)].end = "called"

\* the session's flag was set before the first entry of the site was taken
StoppedAtStart == stop_flag /\ stop_at.pc = "dispatch" /\ stop_at.run = 1

\* the dispatcher call ended by SystemExit or KeyboardInterrupt leaving the
\* runner of its last entry
RunnerEscaped ==
    /\ dispatched[Len(dispatched)].end = "called"
    /\ ran # <<>>
    /\ ran[Len(ran)].exit = "raised"
    /\ log[Len(log)].end = "exit"

\* C13: once a site's pipeline has begun the session's stop flag does not
\* stop it. The worker's own flag is False throughout; every runner call takes
\* its manifest instead of breaking at the stop check; only an exception ends
\* the pipeline before its last entry, one of the dispatcher's own load or
\* a SystemExit or KeyboardInterrupt that leaves a runner; a pipeline that
\* returns has dispatched every entry.
C13_WorkerIgnoresSessionFlag ==
    parent = "worker"
    => /\ item_stop_flag = FALSE
       /\ LastCallEnded => Len(log) = 1
       /\ Len(ran) <= Len(Called)
       /\ pc = "raised" => \/ dispatched[Len(dispatched)].end = "raise"
                           \/ RunnerEscaped
       /\ pc = "returned" => /\ Len(dispatched) = Len(cfg_site)
                             /\ \A j \in DOMAIN ran : ran[j].exit = "returned"

C13_Witness ==
    /\ StoppedAtStart
    /\ pc = "returned"
    /\ Len(cfg_site) = 3
    /\ Len(ran) = 3
    /\ HandlerInvoked(log[1])

\* C14: an entry whose level the dispatcher does not recognise is logged as
\* an error and no runner is called for it, and the pipeline goes on: it
\* does not end at that entry, and when it returns every entry of the site
\* has been dispatched, the later ones to their runners.
C14_UnknownLevelSkipsEntry ==
    \A i \in DOMAIN dispatched :
        (dispatched[i].end # "raise" /\ Lower(dispatched[i].level) \notin DispatcherLevels)
        => /\ dispatched[i].runner = "none"
           /\ dispatched[i].end = "error"
           /\ (i = Len(dispatched) /\ ~DispatchEnded) => pc = "dispatch"
           /\ (i = Len(dispatched) /\ DispatchEnded) => (pc = "returned" /\ i = Len(cfg_site))
           /\ Len(ran) <= Len(Called)

C14_Witness ==
    /\ pc = "returned"
    /\ ~stop_flag
    /\ Len(dispatched) = 3
    /\ dispatched[1].level = "l7" /\ dispatched[1].end = "error"
    /\ dispatched[2].end = "called" /\ dispatched[2].runner = "l1"
    /\ dispatched[3].end = "called" /\ dispatched[3].runner = "concatenate"
    /\ Len(ran) = 2

\* C15: a site worker takes the entries one after another in ascending
\* numeric order of their keys, whatever their levels: each entry it
\* dispatches goes as a single-entry ControlFileSet to the runner of the
\* level that the entry's control file declares, and a runner has returned
\* before the next entry is taken. Keys declared "10", "2", "1" are taken as
\* "1", "2", "10".
C15_EntriesInNumericOrder ==
    parent = "worker"
    => /\ \A i, j \in DOMAIN dispatched :
              i < j => KeyInt(dispatched[i].key) < KeyInt(dispatched[j].key)
       /\ \A i \in DOMAIN dispatched :
              \E j \in DOMAIN cfg_site :
                  /\ cfg_site[j].key = dispatched[i].key
                  /\ cfg_site[j].level = dispatched[i].level
       /\ \A j \in DOMAIN cfg_site :
              (\E i \in DOMAIN dispatched :
                  KeyInt(dispatched[i].key) > KeyInt(cfg_site[j].key))
              => \E i \in DOMAIN dispatched : dispatched[i].key = cfg_site[j].key
       /\ \A i \in DOMAIN dispatched :
              dispatched[i].end = "called"
              => dispatched[i].runner = Lower(dispatched[i].level)
       /\ pc \in {"iter", "try"}
            => /\ cf_level = <<dispatched[Len(dispatched)].key>>
               /\ order = cf_level
               /\ Kind = dispatched[Len(dispatched)].runner
               /\ Len(Called) = Len(ran) + 1
       /\ pc \in {"dispatch", "returned", "raised"} => Len(Called) = Len(ran)
       /\ (pc = "returned" /\ SiteKeys(cfg_site) = << <<1, 0>>, <<2>>, <<1>> >>)
            => SiteKeys(dispatched) = << <<1>>, <<2>>, <<1, 0>> >>

C15_Witness ==
    /\ pc = "returned"
    /\ cfg_site = << [key |-> <<1, 0>>, level |-> "concatenate"],
                     [key |-> <<2>>, level |-> "L1"],
                     [key |-> <<1>>, level |-> "concatenate"] >>
    /\ SiteKeys(dispatched) = << <<1>>, <<2>>, <<1, 0>> >>
    /\ RanLevels = <<"concatenate", "L1", "concatenate">>

---------------------------------------------------------------------------
(* The entry of do_levels_batch: mode and Options of the batch file *)

\* the modes do_levels_batch takes a batch control file from
KnownModes == {"interactive", "batch"}

\* values of main_ui.mode
Modes == KnownModes \cup {"gui"}

\* a batch file without Options, with Options but no levels, with levels
BatchFiles ==
    {[has_options |-> FALSE, has_levels |-> FALSE],
     [has_options |-> TRUE, has_levels |-> FALSE],
     WithLevels}

\* an entry that reads the level list whatever the Options section holds
EntryIgnoresOptions(m, cf) ==
    IF m \notin KnownModes
    THEN [pc |-> "raised", msg |-> "Unrecognised option for mode (" \o m \o ")"]
    ELSE [pc |-> "levels", msg |-> ""]

\* what do_levels_batch does before its loop: RuntimeError for an unknown
\* mode, sys.exit() when Options or Options/levels is missing
EntryOutcome(m, cf) ==
    IF m \notin KnownModes
    THEN [pc |-> "raised", msg |-> "Unrecognised option for mode (" \o m \o ")"]
    ELSE IF ~cf.has_options
    THEN [pc |-> "exited", msg |-> "No [Options] section in control file"]
    ELSE IF ~cf.has_levels
    THEN [pc |-> "exited", msg |-> "No 'levels' entry found in [Options] section"]
    ELSE [pc |-> "levels", msg |-> ""]

\* a session about to call do_levels_batch; the level list is what
\* Options/levels holds, empty when there is no such entry
InitEntry ==
    /\ stop_flag = FALSE
    /\ mode \in Modes
    /\ cf_batch \in BatchFiles
    /\ entry_msg = ""
    /\ levels \in (IF cf_batch.has_levels
                   THEN {<<>>} \cup {<<l>> : l \in LevelIds}
                   ELSE {<<>>})
    /\ sections \in SUBSET processing_levels
    /\ Cardinality(sections) <= 1
    /\ cf_level \in {[i \in 1..n |-> <<i>>] : n \in 0..MaxBatchManifests}
    /\ cf_options = NoOptions
    /\ pc = "start"
    /\ lvl = 1
    /\ order = <<>>
    /\ idx = 0
    /\ cur = NoManifest
    /\ log = <<>>
    /\ ran = <<>>
    /\ stop_at = NoStop
    /\ nsites = 0
    /\ nentries = 0
    /\ may_fail = {}
    /\ next_chunk = 1
    /\ site = <<>>
    /\ parent = "none"
    /\ cfg_site = <<>>
    /\ item_stop_flag = FALSE
    /\ entry = 0
    /\ dispatched = <<>>
    /\ MptIdle
    /\ RpIdle

\* do_levels_batch up to its for loop
LevelsEntry ==
    /\ pc = "start"
    /\ pc' = EntryOutcome(mode, cf_batch).pc
    /\ entry_msg' = EntryOutcome(mode, cf_batch).msg
    /\ UNCHANGED <<stop_flag, levels, sections, cf_level, cf_options, lvl, order,
                   idx, cur, log, ran, stop_at, mode, cf_batch>>
    /\ UNCHANGED <<site_vars, disp_vars, mpt_vars, rp_vars>>

NextEntry == LevelsEntry \/ SetStop \/ LevelsStep \/ RunnerIter \/ RunnerTry

SpecEntry == InitEntry /\ [][NextEntry]_vars

---------------------------------------------------------------------------
(* run_mpt_code: one call of the external u* threshold executable per year *)

\* the most years a data set spans
MaxYears == 2

\* the first year of the data
FirstYear == 2019

\* the header line of the input file, character by character
header ==
    <<"T", "I", "M", "E", "S", "T", "A", "M", "P", ",",
      "N", "E", "E", ",", "V", "P", "D", ",", "U", "S",
      "T", "A", "R", ",", "T", "A", ",", "S", "W", "_",
      "I", "N", ",", "H", ",", "L", "E">>

\* Python's "a in b" for two strings
IsSubstring(a, b) ==
    \E i \in 0..(Len(b) - Len(a)) : SubSeq(b, i + 1, i + Len(a)) = a

\* the columns the header names behind TIMESTAMP: NEE, VPD, USTAR, TA,
\* SW_IN, H, LE
DataColumns ==
    {<<"N", "E", "E">>, <<"V", "P", "D">>, <<"U", "S", "T", "A", "R">>, <<"T", "A">>,
     <<"S", "W", "_", "I", "N">>, <<"H">>, <<"L", "E">>}

\* keys of the Variables section of an MPT control file: the seven columns
\* and the keys T and Fc
LabelPool == DataColumns \cup {<<"T">>, <<"F", "c">>}

\* the number of conversions of the format string of numpy.savetxt
FormatColumns == 8

\* the array of make_data_array, one column for the time and one per key of
\* cf["Variables"], has as many columns as the format string has conversions
ColumnsMatchFormat(labels) == 1 + Cardinality(labels) = FormatColumns

\* the time steps of a data set, in minutes
TimeSteps == {15, 30, 60}

\* exit statuses of the executable
ExitCodes == {0, 1}

\* the years of the data, ascending
YearLists == {[i \in 1..n |-> FirstYear + i - 1] : n \in 1..MaxYears}

\* a wrapper that records a year only when the executable reported success
RecordsOnSuccess(exit, exists) == exit = 0 /\ exists

\* out_file_paths[year] is set when the output file of the year exists
RecordsYear(exit, exists) == exists

\* every key of cf["Variables"] occurs in the header string
LabelsAccepted(labels) == \A label \in labels : IsSubstring(label, header)

\* an exception ahead of the time step check: cf["Variables"][label]["name"]
\* of a key that passed the test and is looked at before any key that fails
\* it, or open() of the log file behind the loop
RaisesBeforeOpen(labels) ==
    \/ \E label \in labels : IsSubstring(label, header)
    \/ LabelsAccepted(labels)

TimeStepAccepted(ts) == ~(ts # 30 /\ ts # 60)

InitMptAt(start) ==
    /\ stop_flag = FALSE
    /\ levels = <<>>
    /\ sections = {}
    /\ cf_level = <<>>
    /\ cf_options = NoOptions
    /\ pc = "none"
    /\ lvl = 1
    /\ order = <<>>
    /\ idx = 0
    /\ cur = NoManifest
    /\ log = <<>>
    /\ ran = <<>>
    /\ stop_at = NoStop
    /\ nsites = 0
    /\ nentries = 0
    /\ may_fail = {}
    /\ next_chunk = 1
    /\ site = <<>>
    /\ parent = "none"
    /\ cfg_site = <<>>
    /\ item_stop_flag = FALSE
    /\ entry = 0
    /\ dispatched = <<>>
    /\ EntryPassed
    /\ mpt_pc = start
    /\ mpt_in \in [labels : SUBSET LabelPool, ts : TimeSteps, years : YearLists]
    /\ yr = 0
    /\ out_file_paths = {}
    /\ calls = <<>>
    /\ mptlogfile = "unopened"
    /\ mpt_read = <<>>
    /\ ustar_results = {}
    /\ workbook = "none"
    /\ RpIdle

\* mpt_main called by do_mpt_batch
InitMptMain == InitMptAt("main")

\* run_mpt_code called by mpt_main with a data set that was read
InitMpt == InitMptAt("run")

\* run_mpt_code up to its loop: the label check, the log file, the time step
MptSetup ==
    /\ mpt_pc = "run"
    /\ \/ /\ ~LabelsAccepted(mpt_in.labels)
          /\ mpt_pc' = "returned"
          /\ UNCHANGED <<yr, mptlogfile>>
       \/ /\ RaisesBeforeOpen(mpt_in.labels)
          /\ mpt_pc' = "raised"
          /\ UNCHANGED <<yr, mptlogfile>>
       \/ /\ LabelsAccepted(mpt_in.labels)
          /\ mptlogfile' = "open"
          /\ IF TimeStepAccepted(mpt_in.ts)
             THEN mpt_pc' = "years" /\ yr' = 1
             ELSE mpt_pc' = "returned" /\ UNCHANGED yr
    /\ UNCHANGED <<mpt_in, out_file_paths, calls, mpt_read, ustar_results, workbook>>
    /\ UNCHANGED <<stop_flag, seq_vars, site_vars, disp_vars, entry_vars, rp_vars>>

\* one iteration of the loop over years: write the input file, call the
\* executable, look for its output file
MptYear ==
    /\ mpt_pc = "years"
    /\ yr <= Len(mpt_in.years)
    /\ \/ /\ mpt_pc' = "raised"
          /\ UNCHANGED <<yr, out_file_paths, calls>>
       \/ \E exit \in ExitCodes, exists \in BOOLEAN :
            /\ ColumnsMatchFormat(mpt_in.labels)
            /\ calls' = Append(calls, [year |-> mpt_in.years[yr],
                                       exit |-> exit, exists |-> exists])
            /\ out_file_paths' =
                 IF RecordsYear(exit, exists)
                 THEN out_file_paths \cup {mpt_in.years[yr]}
                 ELSE out_file_paths
            /\ yr' = yr + 1
            /\ UNCHANGED mpt_pc
    /\ UNCHANGED <<mpt_in, mptlogfile, mpt_read, ustar_results, workbook>>
    /\ UNCHANGED <<stop_flag, seq_vars, site_vars, disp_vars, entry_vars, rp_vars>>

\* the end of the loop: close the log file and return out_file_paths
MptReturns ==
    /\ mpt_pc = "years"
    /\ yr > Len(mpt_in.years)
    /\ mptlogfile' = "closed"
    /\ mpt_pc' = "returned"
    /\ UNCHANGED <<mpt_in, yr, out_file_paths, calls, mpt_read, ustar_results, workbook>>
    /\ UNCHANGED <<stop_flag, seq_vars, site_vars, disp_vars, entry_vars, rp_vars>>

NextMpt == MptSetup \/ MptYear \/ MptReturns

SpecMpt == InitMpt /\ [][NextMpt]_vars

\* return codes of pfp_io.nc_read_series
ReturnCodes == {0, 1}

\* what an output file of the executable holds: the two expected headings
\* and four seasons per line, the two headings and three seasons per line,
\* another first line, or too few lines to have a line 15
FileKinds == {"expected", "expected_3_seasons", "unexpected", "short"}

\* "ustar threshold by season" is in line 0 and "bootstrapping" in line 15
HeadingsFound(kind) == kind \in {"expected", "expected_3_seasons"}

\* the seasons xl_write_mpt writes for every temperature class and bootstrap
SeasonsWritten == 4

\* the seasons the sections read from a file hold
SeasonsRead(kind) ==
    IF kind = "expected" THEN SeasonsWritten
    ELSE IF kind = "expected_3_seasons" THEN SeasonsWritten - 1
    ELSE 0

\* the four entries read_mpt_output stores for a year
AllSections == {"seasonal", "annual", "temperature_classes", "bootstraps"}

\* sorted(out_file_paths.keys())
SortedYears(S) ==
    CHOOSE q \in [1..Cardinality(S) -> S] :
        \A i, j \in DOMAIN q : i < j => q[i] < q[j]

\* the position in year_list of the first file that is not as expected, or
\* one behind the list
FirstRejected(year_list, kinds) ==
    IF \E i \in DOMAIN year_list : ~HeadingsFound(kinds[year_list[i]])
    THEN CHOOSE i \in DOMAIN year_list :
            /\ ~HeadingsFound(kinds[year_list[i]])
            /\ \A j \in 1..(i - 1) : HeadingsFound(kinds[year_list[j]])
    ELSE Len(year_list) + 1

\* ury[year] = {} is stored before the file is opened, the four sections
\* behind the test of its contents
SectionsStored(kind) == IF HeadingsFound(kind) THEN AllSections ELSE {}

\* the years that have a key in the result of read_mpt_output: those up to
\* and including the first year whose file is refused
YearsKeyed(year_list, kinds) ==
    {year_list[i] : i \in {j \in DOMAIN year_list : j <= FirstRejected(year_list, kinds)}}

\* the files read_mpt_output opens, in order
FilesRead(year_list, kinds) ==
    [i \in 1..Cardinality(YearsKeyed(year_list, kinds)) |->
        [year |-> year_list[i], kind |-> kinds[year_list[i]]]]

\* read_mpt_output ends with an IndexError: the first line is missing or
\* the first line is as expected and line 15 is missing
ReadRaises(year_list, kinds) ==
    /\ FirstRejected(year_list, kinds) <= Len(year_list)
    /\ kinds[year_list[FirstRejected(year_list, kinds)]] = "short"

\* ustar_results["Years"] as read_mpt_output returns it
read_mpt_output(year_list, kinds) ==
    {[year |-> y, sections |-> SectionsStored(kinds[y]),
      seasons |-> SeasonsRead(kinds[y])] :
        y \in YearsKeyed(year_list, kinds)}

\* xl_write_mpt reads ["bootstraps"] and ["annual"] of every year, then
\* the values of four seasons of every temperature class and bootstrap,
\* all ahead of xlwriter.save()
WriteRaises(results) ==
    \E r \in results :
        \/ ~({"bootstraps", "annual"} \subseteq r.sections)
        \/ r.seasons < SeasonsWritten

\* mpt_main up to the call of run_mpt_code
MptMain ==
    /\ mpt_pc = "main"
    /\ \E code \in ReturnCodes :
          mpt_pc' = IF code # 0 THEN "main_returned" ELSE "run"
    /\ UNCHANGED <<mpt_in, yr, out_file_paths, calls, mptlogfile, mpt_read,
                   ustar_results, workbook>>
    /\ UNCHANGED <<stop_flag, seq_vars, site_vars, disp_vars, entry_vars, rp_vars>>

\* mpt_main behind run_mpt_code: return when nothing was recorded, else read
\* the output files and write the workbook
MptResults ==
    /\ mpt_pc = "returned"
    /\ IF Cardinality(out_file_paths) = 0
       THEN /\ mpt_pc' = "main_returned"
            /\ UNCHANGED <<mpt_read, ustar_results, workbook>>
       ELSE \E kinds \in [out_file_paths -> FileKinds] :
             LET year_list == SortedYears(out_file_paths)
             IN /\ mpt_read' = FilesRead(year_list, kinds)
                /\ IF ReadRaises(year_list, kinds)
                   THEN /\ mpt_pc' = "main_raised"
                        /\ UNCHANGED <<ustar_results, workbook>>
                   ELSE /\ ustar_results' = read_mpt_output(year_list, kinds)
                        /\ IF WriteRaises(read_mpt_output(year_list, kinds))
                           THEN mpt_pc' = "main_raised" /\ UNCHANGED workbook
                           ELSE mpt_pc' = "main_returned" /\ workbook' = "written"
    /\ UNCHANGED <<mpt_in, yr, out_file_paths, calls, mptlogfile>>
    /\ UNCHANGED <<stop_flag, seq_vars, site_vars, disp_vars, entry_vars, rp_vars>>

NextMptMain == MptMain \/ MptSetup \/ MptYear \/ MptReturns \/ MptResults

SpecMptMain == InitMptMain /\ [][NextMptMain]_vars

---------------------------------------------------------------------------
(* pfp_rp: the day, night and evening indicator series *)

\* the sequential session, the site fan-out and the MPT handler are idle
BatchIdle ==
    /\ stop_flag = FALSE
    /\ levels = <<>>
    /\ sections = {}
    /\ cf_level = <<>>
    /\ cf_options = NoOptions
    /\ pc = "none"
    /\ lvl = 1
    /\ order = <<>>
    /\ idx = 0
    /\ cur = NoManifest
    /\ log = <<>>
    /\ ran = <<>>
    /\ stop_at = NoStop
    /\ nsites = 0
    /\ nentries = 0
    /\ may_fail = {}
    /\ next_chunk = 1
    /\ site = <<>>
    /\ parent = "none"
    /\ cfg_site = <<>>
    /\ item_stop_flag = FALSE
    /\ entry = 0
    /\ dispatched = <<>>
    /\ EntryPassed
    /\ MptIdle

\* the most records of a data set of the indicator functions
MaxRecs == 4

\* the default of Options/Fsd_threshold, W/m2
FsdThreshold == 10

\* the default of Options/sa_threshold is -5 degrees
SaThresholdBelowZero == 5

SaThreshold == 0 - SaThresholdBelowZero

\* Fsd values at and above the threshold
FsdValues == {FsdThreshold, FsdThreshold + 1}

\* solar altitudes below and at the threshold
SaValues == {SaThreshold - 1, SaThreshold}

\* values of Options/DayNightFilter
FilterTypes == {"Fsd", "sa", "Fsd_syn"}

\* filter_type.lower()
FilterLower(t) == IF t = "Fsd" THEN "fsd" ELSE IF t = "Fsd_syn" THEN "fsd_syn" ELSE t

\* values of Options/EveningFilterLength, hours
FilterLengths == {0, 1, 12}

\* numpy.ones(nrecs) and numpy.zeros(nrecs)
Ones(n) == [i \in 1..n |-> 1]

Zeros(n) == [i \in 1..n |-> 0]

\* the records numpy.ma.where selects: Fsd <= Fsd_threshold for the filter
\* "fsd", solar_altitude < sa_threshold for the filter "sa"
NightIndex(in) ==
    IF FilterLower(in.filter_type) = "fsd"
    THEN {i \in DOMAIN in.Fsd : in.Fsd[i] <= FsdThreshold}
    ELSE {i \in DOMAIN in.sa : in.sa[i] < SaThreshold}

\* inds[idx] = value
Assign(inds, index, value) ==
    [i \in DOMAIN inds |-> IF i \in index THEN value ELSE inds[i]]

FilterKnown(in) == FilterLower(in.filter_type) \in {"fsd", "sa"}

\* the series of get_night_indicator: ones, then 1 at the selected records
get_night_indicator(in) == Assign(Ones(Len(in.Fsd)), NightIndex(in), 1)

\* the series of get_day_indicator: ones, then 0 at the selected records
get_day_indicator(in) == Assign(Ones(Len(in.Fsd)), NightIndex(in), 0)

\* numpy.roll(a, shift)
Roll(a, shift) == [i \in DOMAIN a |-> a[((i - 1 - shift) % Len(a)) + 1]]

\* int(0.5 + float(60)/float(ts))
NtsPerHour(ts) == (120 + ts) \div (2 * ts)

\* num_hours <= 0 or num_hours >= 12
LengthOutside(num_hours) == num_hours <= 0 \/ num_hours >= 12

\* the series of get_evening_indicator for a length inside 0 to 12 hours
get_evening_indicator(in) ==
    LET shift == in.num_hours * NtsPerHour(in.ts)
        day_indicator_shifted == Roll(get_day_indicator(in), shift)
    IN [i \in DOMAIN in.Fsd |-> get_night_indicator(in)[i] * day_indicator_shifted[i]]

\* a data set of 1..MaxRecs records and the Options of its control file
InitIndicators ==
    /\ BatchIdle
    /\ rp_pc = "indicators"
    /\ \E n \in 1..MaxRecs :
          rp_in \in [Fsd : [1..n -> FsdValues], sa : [1..n -> SaValues],
                     filter_type : FilterTypes, num_hours : FilterLengths,
                     ts : {30, 60}]
    /\ Len(rp_in.Fsd) = Len(rp_in.sa)
    /\ rp_out = [day |-> <<>>, night |-> <<>>, evening |-> <<>>]

RpFrame == UNCHANGED <<stop_flag, seq_vars, site_vars, disp_vars, entry_vars, mpt_vars>>

GetDayIndicator ==
    /\ rp_pc = "indicators"
    /\ rp_out.day = <<>>
    /\ IF FilterKnown(rp_in)
       THEN rp_out' = [rp_out EXCEPT !.day = get_day_indicator(rp_in)] /\ UNCHANGED rp_pc
       ELSE rp_pc' = "raised" /\ UNCHANGED rp_out
    /\ UNCHANGED rp_in
    /\ RpFrame

GetNightIndicator ==
    /\ rp_pc = "indicators"
    /\ rp_out.night = <<>>
    /\ IF FilterKnown(rp_in)
       THEN rp_out' = [rp_out EXCEPT !.night = get_night_indicator(rp_in)]
            /\ UNCHANGED rp_pc
       ELSE rp_pc' = "raised" /\ UNCHANGED rp_out
    /\ UNCHANGED rp_in
    /\ RpFrame

GetEveningIndicator ==
    /\ rp_pc = "indicators"
    /\ rp_out.evening = <<>>
    /\ IF LengthOutside(rp_in.num_hours)
       THEN rp_out' = [rp_out EXCEPT !.evening = Zeros(Len(rp_in.Fsd))]
            /\ UNCHANGED rp_pc
       ELSE IF FilterKnown(rp_in)
       THEN rp_out' = [rp_out EXCEPT !.evening = get_evening_indicator(rp_in)]
            /\ UNCHANGED rp_pc
       ELSE rp_pc' = "raised" /\ UNCHANGED rp_out
    /\ UNCHANGED rp_in
    /\ RpFrame

NextIndicators == GetDayIndicator \/ GetNightIndicator \/ GetEveningIndicator

SpecIndicators == InitIndicators /\ [][NextIndicators]_vars

---------------------------------------------------------------------------
(* pfp_rp: the u* turbulence filters *)

\* the most records of a data set of the u* filters
MaxUstarRecs == 4

\* the most years such a data set spans
MaxUstarYears == 2

\* u* values and annual thresholds, in tenths of m/s
UstarValues == {2, 3}

\* the k-th year of the data has the records whose time stamp, moved back
\* by one time step, falls in it; the years of a data set are ascending
YearSeries(n) ==
    {q \in [1..n -> 1..MaxUstarYears] :
        /\ q[1] = 1
        /\ \A i \in 1..(n - 1) : q[i + 1] \in {q[i], q[i] + 1}}

\* the years that have records
RecordYears(q) == {q[i] : i \in DOMAIN q}

\* sorted(list(ustar_dict.keys())): the years ustar_dict has a threshold
\* for, with or without records
UstarYears(in) == in.keys

\* pfp_utils.GetDateIndex(ldt, start_date, default=0, match="exact"): the
\* record with the first time stamp of the year, else the first record
StartIndex(in, y) ==
    IF \E i \in DOMAIN in.year : in.year[i] = y
    THEN CHOOSE i \in DOMAIN in.year :
            in.year[i] = y /\ \A j \in DOMAIN in.year : in.year[j] = y => i <= j
    ELSE 1

\* pfp_utils.GetDateIndex(ldt, end_date, default=nrecs-1, match="exact"):
\* the record stamped 00:00 of 1 January of the next year, else the last record
EndIndex(in, y) ==
    IF \E i \in DOMAIN in.year : in.year[i] = y
    THEN CHOOSE i \in DOMAIN in.year :
            in.year[i] = y /\ \A j \in DOMAIN in.year : in.year[j] = y => j <= i
    ELSE Len(in.year)

\* the records of the slice [si:ei] of year y
YearSlice(in, y) == {i \in DOMAIN in.year : StartIndex(in, y) <= i /\ i < EndIndex(in, y)}

\* one pass of the loop over years of the basic filter: 1 where
\* ustar >= ustar_threshold in the slice of the year
BasicYear(in, y, basic) ==
    [i \in DOMAIN basic |->
        IF i \in YearSlice(in, y) /\ in.ustar[i] >= in.thr[y] THEN 1 ELSE basic[i]]

RECURSIVE BasicFrom(_, _, _)
BasicFrom(in, y, basic) ==
    IF y > MaxUstarYears THEN basic
    ELSE IF y \in UstarYears(in)
    THEN BasicFrom(in, y + 1, BasicYear(in, y, basic))
    ELSE BasicFrom(in, y + 1, basic)

\* the basic filter: zeros, then one pass per year of ustar_dict
ustar_basic(in) == BasicFrom(in, 1, Zeros(Len(in.ustar)))

\* the loop of get_turbulence_indicator_ustar_evgb from record i on, with
\* keep_going as the record before left it
RECURSIVE EvgbScan(_, _, _, _, _)
EvgbScan(in, basic, i, keep_going, acc) ==
    IF i > Len(basic) THEN acc
    ELSE IF in.day[i] = 1
    THEN EvgbScan(in, basic, i + 1, TRUE, Append(acc, basic[i]))
    ELSE IF basic[i] = 1 /\ keep_going
    THEN EvgbScan(in, basic, i + 1, keep_going, Append(acc, basic[i]))
    ELSE EvgbScan(in, basic, i + 1, FALSE, Append(acc, 0))

\* ustar_basic["basic"]["Data"]*ustar_evgb
ustar_evgb(in) ==
    LET basic == ustar_basic(in)
        scan == EvgbScan(in, basic, 1, FALSE, <<>>)
    IN [i \in DOMAIN basic |-> basic[i] * scan[i]]

\* numpy.roll(ustar_basic[si:ei], 1): the record that record i of the slice
\* is multiplied with
RolledFrom(in, y, i) ==
    IF i = StartIndex(in, y) THEN EndIndex(in, y) - 1 ELSE i - 1

\* one pass of the loop over years of get_turbulence_indicator_ustar_fluxnet
\* on the two series as the passes before left them
FluxnetYear(in, y, st) ==
    LET basic == BasicYear(in, y, st.basic)
        si == StartIndex(in, y)
        product == [i \in DOMAIN basic |->
                      IF i \in YearSlice(in, y)
                      THEN basic[i] * basic[RolledFrom(in, y, i)]
                      ELSE st.fluxnet[i]]
    IN [basic |-> basic,
        fluxnet |-> IF basic[si] * 10 < in.thr[y]
                    THEN [i \in DOMAIN basic |->
                            IF i \in {si, si + 1} THEN 0 ELSE product[i]]
                    ELSE product]

RECURSIVE FluxnetFrom(_, _, _)
FluxnetFrom(in, y, st) ==
    IF y > MaxUstarYears THEN st
    ELSE IF y \in UstarYears(in)
    THEN FluxnetFrom(in, y + 1, FluxnetYear(in, y, st))
    ELSE FluxnetFrom(in, y + 1, st)

ustar_fluxnet(in) ==
    FluxnetFrom(in, 1, [basic |-> Zeros(Len(in.ustar)),
                        fluxnet |-> Zeros(Len(in.ustar))]).fluxnet

\* the threshold written for a year that is not a key of ustar_dict
UnusedThreshold == CHOOSE v \in UstarValues : \A w \in UstarValues : v <= w

\* a data set of 1..MaxUstarRecs records with its day indicator and a
\* ustar_dict that has a threshold for every year with records and maybe
\* for further years
InitUstar ==
    /\ BatchIdle
    /\ rp_pc = "ustar"
    /\ \E n \in 1..MaxUstarRecs :
          rp_in \in [year : YearSeries(n), ustar : [1..n -> UstarValues],
                     day : [1..n -> {0, 1}], keys : SUBSET (1..MaxUstarYears),
                     thr : [1..MaxUstarYears -> UstarValues]]
    /\ RecordYears(rp_in.year) \subseteq rp_in.keys
    /\ \A y \in 1..MaxUstarYears : y \notin rp_in.keys => rp_in.thr[y] = UnusedThreshold
    /\ rp_out = [basic |-> <<>>, evgb |-> <<>>, fluxnet |-> <<>>]

GetUstarBasic ==
    /\ rp_pc = "ustar"
    /\ rp_out.basic = <<>>
    /\ rp_out' = [rp_out EXCEPT !.basic = ustar_basic(rp_in)]
    /\ UNCHANGED <<rp_pc, rp_in>>
    /\ RpFrame

GetUstarEvgb ==
    /\ rp_pc = "ustar"
    /\ rp_out.evgb = <<>>
    /\ rp_out' = [rp_out EXCEPT !.evgb = ustar_evgb(rp_in)]
    /\ UNCHANGED <<rp_pc, rp_in>>
    /\ RpFrame

GetUstarFluxnet ==
    /\ rp_pc = "ustar"
    /\ rp_out.fluxnet = <<>>
    /\ rp_out' = [rp_out EXCEPT !.fluxnet = ustar_fluxnet(rp_in)]
    /\ UNCHANGED <<rp_pc, rp_in>>
    /\ RpFrame

NextUstar == GetUstarBasic \/ GetUstarEvgb \/ GetUstarFluxnet

SpecUstar == InitUstar /\ [][NextUstar]_vars

---------------------------------------------------------------------------
(* pfp_rp: cleanup_ustar_dict, one u* threshold per year of the data *)

\* the time stamps a data set is cut from, in time order: 00:00 of 1 January
\* of a year and a later time of the same year, alternating from FirstYear
MaxStamps == 4

\* the year of time stamp p
StampYear(p) == FirstYear + ((p - 1) \div 2)

\* time stamp p is 00:00 of 1 January
AtNewYear(p) == p % 2 = 1

\* the year of dt - datetime.timedelta(minutes=ts)
ShiftedYear(p) == IF AtNewYear(p) THEN StampYear(p) - 1 ELSE StampYear(p)

\* the sources of thresholds, in the order the loop takes them
SourcesMptFirst == <<"mpt", "cpd", "cf">>

SourceOrder == <<"cf", "cpd", "mpt">>

\* what a source holds for a year: no entry, NaN, or a value in hundredths
\* of m/s
NoEntry == [kind |-> "none", value |-> 0]

NaNEntry == [kind |-> "nan", value |-> 0]

SourceEntries == {NoEntry, NaNEntry, [kind |-> "value", value |-> 20],
                  [kind |-> "value", value |-> 40]}

\* a source has entries for FirstYear (1) and the year after (2)
SourceTables ==
    {[present |-> FALSE, entries |-> <<NoEntry, NoEntry>>]} \cup
    [present : {TRUE}, entries : [{1, 2} -> SourceEntries]]

\* sorted(list(set([ldt.year for ldt in cdt])))
data_years(in) == {ShiftedYear(p) : p \in in.first..in.last}

\* ustar_in[item]
SourceOf(in, item) ==
    IF item = "cf" THEN in.cf ELSE IF item = "cpd" THEN in.cpd ELSE in.mpt

\* ustar_in[item][str(year)], when item is in ustar_in and has the year
EntryOf(in, item, year) ==
    IF SourceOf(in, item).present /\ (year - FirstYear + 1) \in {1, 2}
    THEN SourceOf(in, item).entries[year - FirstYear + 1]
    ELSE NoEntry

\* the loop over the sources for one year: the value stays NaN until a
\* source has a value that is not NaN
RECURSIVE PickFrom(_, _, _, _)
PickFrom(in, year, k, out) ==
    IF k > Len(SourceOrder) THEN out
    ELSE LET e == EntryOf(in, SourceOrder[k], year)
         IN IF e.kind = "value" /\ out.kind = "nan"
            THEN PickFrom(in, year, k + 1, e)
            ELSE PickFrom(in, year, k + 1, out)

Picked(in, year) == PickFrom(in, year, 1, NaNEntry)

RECURSIVE SumOfPicked(_, _)
SumOfPicked(in, years) ==
    IF years = {} THEN 0
    ELSE LET y == CHOOSE y \in years : TRUE
         IN Picked(in, y).value + SumOfPicked(in, years \ {y})

\* the default threshold, 0.25 m/s, in hundredths
DefaultThreshold == 25

\* numpy.sum(numpy.array(good_values))/len(good_values), as a fraction
ThresholdMean(in) ==
    LET good == {y \in data_years(in) : Picked(in, y).kind = "value"}
    IN IF Cardinality(good) = 0
       THEN [num |-> DefaultThreshold, den |-> 1]
       ELSE [num |-> SumOfPicked(in, good), den |-> Cardinality(good)]

\* ustar_out: for every year of the data its threshold as a fraction
cleanup_ustar_dict(in) ==
    {[year |-> y,
      ustar_mean |-> IF Picked(in, y).kind = "value"
                     THEN [num |-> Picked(in, y).value, den |-> 1]
                     ELSE ThresholdMean(in)] : y \in data_years(in)}

\* a data set cut from the time line and the sources of ustar_in
InitThresholds ==
    /\ BatchIdle
    /\ rp_pc = "thresholds"
    /\ rp_in \in [first : 1..MaxStamps, last : 1..MaxStamps,
                   cf : SourceTables, cpd : SourceTables, mpt : SourceTables]
    /\ rp_in.first <= rp_in.last
    /\ rp_out = {}

CleanupUstarDict ==
    /\ rp_pc = "thresholds"
    /\ rp_pc' = "cleaned"
    /\ rp_out' = cleanup_ustar_dict(rp_in)
    /\ UNCHANGED rp_in
    /\ RpFrame

NextThresholds == CleanupUstarDict

SpecThresholds == InitThresholds /\ [][NextThresholds]_vars

---------------------------------------------------------------------------
(* Properties of the level order, the iteration policy and the frame *)

\* the keys of the log, in the order the runner took them
LogKeys == [i \in DOMAIN log |-> log[i].key]

\* the fingerprint step was started for the manifest of log record r
FingerprintInvoked(r) ==
    r.stage = "fingerprint" \/ (r.stage = "end" /\ LogKind \in Fingerprints)

\* C21: do_levels_batch runs the recognised levels in the order of
\* Options/levels: the runner calls made so far are those of the recognised
\* levels before position lvl, in declared order, and while a runner runs it
\* is the runner of levels[lvl] and every earlier call has returned.
C21_DeclaredLevelOrder ==
    /\ pc \in {"levels", "iter", "try"}
        => RanLevels = SelectSeq(SubSeq(levels, 1, lvl - 1), IsKnownId)
    /\ pc \in {"iter", "try"}
        => /\ IsKnownId(levels[lvl])
           /\ \A i \in DOMAIN ran : ran[i].exit = "returned"
    /\ \A i \in DOMAIN ran :
          i <= Len(SelectSeq(levels, IsKnownId))
          /\ ran[i].level = SelectSeq(levels, IsKnownId)[i]

C21_Witness ==
    /\ levels = <<"l2", "l1">>
    /\ pc = "returned"
    /\ ~stop_flag
    /\ RanLevels = <<"l2", "l1">>
    /\ Len(log) = 1 /\ log[1].end = "ok"

\* C22: a failed input read aborts no level run. When the run of L2, L3,
\* L4, L5 or L6 has ended with the stop flag never set and the read of some
\* manifest's input reported a non-zero return code, every manifest of the
\* set was still taken.
C22_ReadFailureIsolated ==
    (/\ RunEnded
     /\ ~stop_flag
     /\ LogKind \in {"l2", "l3", "l4", "l5", "l6"}
     /\ \E i \in DOMAIN log : log[i].stage = "read" /\ log[i].end = "return")
    => Len(log) = Len(order)

\* C23: the stop check is the first step of an iteration. When the flag is
\* set at a manifest boundary, the manifest at that boundary and all later
\* ones are not examined: nothing is logged for them.
C23_StopCheckedFirst ==
    (StoppedInThisRun /\ stop_at.pc = "iter")
    => Len(log) < stop_at.idx

\* the runner has caught what the body raised for the manifest of log
\* record i and gone on: the manifest behind it is the next of the
\* iteration order, and the run ends there only when it was the last
\* manifest or the stop flag is set
ContinuesBehind(i) ==
    /\ i = Len(log) => /\ pc # "raised"
                       /\ pc = "iter" => idx = i + 1
                       /\ (RunEnded /\ ~stop_flag) => i = Len(order)
    /\ i < Len(log) => log[i + 1].key = order[i + 1]

\* C24 as stated, for every exception: the fingerprint step is started only
\* by the runners of concatenate, L4 and L5, and only behind the handler
\* call; whatever the step raises, the runner catches it and goes on with
\* the next manifest.
C24_FingerprintRaiseCaught ==
    \A i \in DOMAIN log :
        /\ FingerprintInvoked(log[i])
            => /\ LogKind \in {"concatenate", "l4", "l5"}
               /\ HandlerInvoked(log[i])
        /\ (log[i].stage = "fingerprint" /\ log[i].end \in {"raise", "exit"})
            => ContinuesBehind(i)

\* C24: the fingerprint step is started only by the runners of concatenate,
\* L4 and L5, and only behind the handler call; when the step raises an
\* exception derived from Exception, the runner catches it and goes on with
\* the next manifest; SystemExit or KeyboardInterrupt raised by the step
\* leaves the runner, whose call ends there.
C24_FingerprintSideEffect ==
    \A i \in DOMAIN log :
        /\ FingerprintInvoked(log[i])
            => /\ LogKind \in {"concatenate", "l4", "l5"}
               /\ HandlerInvoked(log[i])
        /\ (log[i].stage = "fingerprint" /\ log[i].end = "raise")
            => ContinuesBehind(i)
        /\ (log[i].stage = "fingerprint" /\ log[i].end = "exit")
            => /\ i = Len(log)
               /\ pc = "raised"
               /\ ran[Len(ran)].exit = "raised"

C24_Witness ==
    /\ LogKind = "l4"
    /\ RunEnded
    /\ ~stop_flag
    /\ Len(log) = 2
    /\ log[1].stage = "fingerprint" /\ log[1].end = "raise"
    /\ log[2].stage = "end" /\ log[2].end = "ok"

\* C25: the orchestrator never writes the session's stop flag and leaves
\* its inputs alone. A step that changes the flag sets it and is a step of
\* none of do_levels_batch, a runner, do_sites_batch and
\* do_sites_batch_dispatcher: it moves none of them. No step of
\* do_levels_batch or of a runner changes the declared level sequence, the
\* Levels section or the ControlFileSet the runner was given; no step of
\* the dispatcher or of a runner it calls changes the site's entries or the
\* flag of the site's Bunch; no step of do_sites_batch changes the sites.
C25_FlagAndInputsReadOnly ==
    [][/\ stop_flag' # stop_flag
           => /\ stop_flag'
              /\ UNCHANGED <<pc, lvl, order, idx, cur, log, ran>>
              /\ UNCHANGED <<entry, dispatched, next_chunk, site, parent>>
       /\ (parent = "none" \/ pc \in {"iter", "try"})
           => UNCHANGED <<levels, sections, cf_level>>
       /\ parent = "worker" => UNCHANGED <<cfg_site, item_stop_flag>>
       /\ parent = "map" => UNCHANGED <<nsites, nentries, may_fail>>]_vars

C25_Witness ==
    /\ pc = "returned"
    /\ stop_flag
    /\ stop_at.pc = "try" /\ stop_at.run = 2
    /\ Len(levels) = 2
    /\ Len(ran) = 2

\* C26: every runner but those of concatenate, L4 and L5 takes the manifests
\* in the declaration order of the ControlFileSet: keys declared "10", "2",
\* "1" are taken as "10", "2", "1".
C26_DeclarationOrder ==
    LogKind \in processing_levels \ {"concatenate", "l4", "l5"}
    => /\ Len(log) <= Len(cf_level)
       /\ \A i \in DOMAIN log : log[i].key = cf_level[i]
       /\ (cf_level = << <<1, 0>>, <<2>>, <<1>> >> /\ Len(log) = 3)
            => LogKeys = << <<1, 0>>, <<2>>, <<1>> >>

C26_Witness ==
    /\ LogKind = "l6"
    /\ RunEnded
    /\ cf_level = << <<1, 0>>, <<2>>, <<1>> >>
    /\ LogKeys = << <<1, 0>>, <<2>>, <<1>> >>
    /\ \A i \in DOMAIN log : log[i].end = "ok"

\* C27: one registry for both dispatch paths. The site dispatcher calls a
\* runner for an entry exactly when do_levels_batch recognises the entry's
\* level, and then the runner do_levels_batch would call.
C27_OneRegistry ==
    \A i \in DOMAIN dispatched :
        dispatched[i].end # "raise"
        => /\ dispatched[i].end = "called" <=> Recognised(dispatched[i].level)
           /\ dispatched[i].end = "called"
                => dispatched[i].runner = Lower(dispatched[i].level)

\* C28: when the concatenation manifest does not parse, neither the handler
\* nor the fingerprint step is started for it and the runner goes on with
\* the next manifest in numeric order: the refusal does not end the run
\* unless the manifest was the last one or the stop flag is set, and the
\* manifest taken behind the refused one is the next of the iteration order,
\* with the next larger key.
C28_ParseRefusalSkips ==
    LogKind = "concatenate"
    => \A i \in DOMAIN log :
         log[i].stage = "parse"
         => /\ log[i].end = "continue"
            /\ ~HandlerInvoked(log[i])
            /\ ~FingerprintInvoked(log[i])
            /\ ContinuesBehind(i)
            /\ i < Len(log) => KeyInt(log[i].key) < KeyInt(log[i + 1].key)

C28_Witness ==
    /\ LogKind = "concatenate"
    /\ RunEnded
    /\ ~stop_flag
    /\ cf_level = << <<1, 0>>, <<2>> >>
    /\ Len(log) = 2
    /\ log[1].key = <<2>> /\ log[1].stage = "parse"
    /\ log[2].key = <<1, 0>> /\ log[2].stage = "end"

\* C29: a batch file without an Options section, or whose Options section
\* has no levels entry, ends do_levels_batch before its loop: no runner is
\* called and no manifest is taken, and when the mode is one the function
\* knows it has logged the error and called sys.exit().
C29_NoLevelsExits ==
    (~cf_batch.has_options \/ ~cf_batch.has_levels)
    => /\ pc \in {"start", "exited", "raised"}
       /\ ran = <<>>
       /\ log = <<>>
       /\ cur = NoManifest
       /\ (pc # "start" /\ mode \in {"interactive", "batch"})
            => /\ pc = "exited"
               /\ entry_msg = (IF cf_batch.has_options
                               THEN "No 'levels' entry found in [Options] section"
                               ELSE "No [Options] section in control file")

C29_Witness ==
    /\ mode = "batch"
    /\ cf_batch = [has_options |-> TRUE, has_levels |-> FALSE]
    /\ pc = "exited"
    /\ entry_msg = "No 'levels' entry found in [Options] section"
    /\ ran = <<>>

\* C30: run_mpt_code does not act on the exit status of the executable. A
\* year has a recorded path exactly when its output file existed behind the
\* call, whatever the exit status; a call that ends with a non-zero status
\* is followed by the next year, so that a loop that nothing else ends
\* calls the executable for every year.
C30_ExitStatusIgnored ==
    /\ \A i \in DOMAIN calls :
          /\ calls[i].year = mpt_in.years[i]
          /\ calls[i].year \in out_file_paths <=> calls[i].exists
    /\ out_file_paths \subseteq {calls[i].year : i \in DOMAIN calls}
    /\ mpt_pc \in {"years", "raised"} /\ yr > 0 => Len(calls) = yr - 1
    /\ (mpt_pc = "returned" /\ yr > 0) => Len(calls) = Len(mpt_in.years)

C30_Witness ==
    /\ mpt_pc = "returned"
    /\ Len(calls) = 2
    /\ calls[1].exit = 1 /\ calls[1].exists
    /\ calls[2].exit = 0 /\ ~calls[2].exists
    /\ out_file_paths = {FirstYear}

\* the columns of the header line: TIMESTAMP and the seven data columns
HeaderColumns == DataColumns \cup {<<"T", "I", "M", "E", "S", "T", "A", "M", "P">>}

\* mpt_main has ended, by a return or by an exception
MptEnded == mpt_pc \in {"main_returned", "main_raised", "raised"}

\* C31: the executable is launched only when every key of cf["Variables"]
\* is a column of the header and the time step is 30 or 60 minutes; with
\* any other input no call is made, nothing is recorded, read_mpt_output
\* opens no file and no workbook is written.
C31_LaunchGate ==
    LET gate == /\ mpt_in.labels \subseteq HeaderColumns
                /\ mpt_in.ts \in {30, 60}
    IN /\ calls # <<>> => gate
       /\ ~gate => /\ calls = <<>>
                   /\ out_file_paths = {}
                   /\ mpt_read = <<>>
                   /\ workbook = "none"

\* C32: the log file run_mpt_code opened is closed when run_mpt_code has
\* returned.
C32_LogFileClosed ==
    mpt_pc = "returned" => mptlogfile # "open"

\* C33: every year key of the result of read_mpt_output has the four
\* sections, and xl_write_mpt does not end by an exception for a section
\* that is missing.
C33_AllSectionsPresent ==
    /\ \A r \in ustar_results : r.sections = AllSections
    /\ ~(mpt_pc = "main_raised" /\ \E r \in ustar_results : r.sections # AllSections)

\* record i of the indicator input is a night-time record
IsNightRecord(i) ==
    IF FilterLower(rp_in.filter_type) = "fsd"
    THEN rp_in.Fsd[i] <= 10
    ELSE rp_in.sa[i] < -5

\* C34: the night indicator is 1 at exactly the night-time records and 0 at
\* every daytime record, and it is the complement of the day indicator.
C34_NightIndicator ==
    (rp_pc = "indicators" /\ rp_out.night # <<>>)
    => /\ \A i \in DOMAIN rp_out.night :
            rp_out.night[i] = (IF IsNightRecord(i) THEN 1 ELSE 0)
       /\ rp_out.day # <<>>
            => \A i \in DOMAIN rp_out.night : rp_out.night[i] = 1 - rp_out.day[i]

\* C35: with a filter length inside 0 to 12 hours the evening indicator is
\* 1 only at night-time records that have a daytime record at most that many
\* hours before them, and 0 at every daytime record; with a length outside
\* it is 0 everywhere.
C35_EveningIndicator ==
    (rp_pc = "indicators" /\ rp_out.evening # <<>>)
    => LET shift == rp_in.num_hours * (IF rp_in.ts = 30 THEN 2 ELSE 1)
       IN \A i \in DOMAIN rp_out.evening :
            /\ rp_out.evening[i] \in {0, 1}
            /\ (rp_in.num_hours <= 0 \/ rp_in.num_hours >= 12) => rp_out.evening[i] = 0
            /\ ~IsNightRecord(i) => rp_out.evening[i] = 0
            /\ rp_out.evening[i] = 1
                 => /\ IsNightRecord(i)
                    /\ \E k \in 1..shift : i - k >= 1 /\ ~IsNightRecord(i - k)

\* ustar of record i is at or above the threshold of the year of record j
AboveThreshold(i, j) == rp_in.ustar[i] >= rp_in.thr[rp_in.year[j]]

\* record i is a night record with a daytime record before it
NightAfterDay(i) ==
    /\ rp_in.day[i] = 0
    /\ \E d \in 1..(i - 1) : rp_in.day[d] = 1

\* the first record of the night that record i is in
NightStart(i) ==
    1 + CHOOSE d \in 1..(i - 1) :
            rp_in.day[d] = 1 /\ \A j \in (d + 1)..i : rp_in.day[j] = 0

\* C36: the EvGB filter as a latch per night: in a run of night records
\* that follows a daytime record the indicator is 1 at record i exactly
\* when ustar is at or above the threshold at every night record of the
\* run up to and including i.
C36_EvgbLatch ==
    (rp_pc = "ustar" /\ rp_out.evgb # <<>>)
    => \A i \in DOMAIN rp_out.evgb :
         NightAfterDay(i)
         => (rp_out.evgb[i] = 1
             <=> \A j \in NightStart(i)..i : AboveThreshold(j, j))

\* C37: the basic and the EvGB filter accept every daytime record: the
\* indicator is 1 there whatever the value of ustar.
C37_DaytimeAccepted ==
    rp_pc = "ustar"
    => /\ rp_out.basic # <<>>
            => \A i \in DOMAIN rp_out.basic : rp_in.day[i] = 1 => rp_out.basic[i] = 1
       /\ rp_out.evgb # <<>>
            => \A i \in DOMAIN rp_out.evgb : rp_in.day[i] = 1 => rp_out.evgb[i] = 1

\* C38: the FluxNet filter: at a record that has a record before it, the
\* indicator is 1 exactly when ustar is at or above the threshold of the
\* record's year at the record and at the record before it.
C38_FluxnetFilter ==
    (rp_pc = "ustar" /\ rp_out.fluxnet # <<>>)
    => \A i \in DOMAIN rp_out.fluxnet :
         /\ rp_out.fluxnet[i] \in {0, 1}
         /\ ~AboveThreshold(i, i) => rp_out.fluxnet[i] = 0
         /\ i > 1 => (rp_out.fluxnet[i] = 1
                      <=> AboveThreshold(i, i) /\ AboveThreshold(i - 1, i))

\* source item has a value that is not missing for the year
HasValue(item, year) ==
    /\ rp_in[item].present
    /\ year \in {FirstYear, FirstYear + 1}
    /\ rp_in[item].entries[year - FirstYear + 1].kind = "value"

ValueOf(item, year) == rp_in[item].entries[year - FirstYear + 1].value

\* the value of the first of cf, cpd, mpt that has one for the year
FirstValue(year) ==
    IF HasValue("cf", year) THEN ValueOf("cf", year)
    ELSE IF HasValue("cpd", year) THEN ValueOf("cpd", year)
    ELSE ValueOf("mpt", year)

\* the calendar years of the data, each time stamp moved back one time step
CalendarYears ==
    {(IF p % 2 = 1 THEN FirstYear + ((p - 1) \div 2) - 1 ELSE FirstYear + ((p - 1) \div 2)) :
        p \in rp_in.first..rp_in.last}

YearsFound == {y \in CalendarYears : \E item \in {"cf", "cpd", "mpt"} : HasValue(item, y)}

RECURSIVE SumOfFirst(_)
SumOfFirst(years) ==
    IF years = {} THEN 0
    ELSE LET y == CHOOSE y \in years : TRUE
         IN FirstValue(y) + SumOfFirst(years \ {y})

\* C39: cleanup_ustar_dict returns one entry for every calendar year of
\* the data and for no other year; a year's threshold is the value of the
\* first of cf, cpd, mpt that has one; a year without a value gets the mean
\* of the values found for the other years, or 0.25 when there is none; no
\* threshold is missing.
C39_OneThresholdPerYear ==
    rp_pc = "cleaned"
    => /\ {r.year : r \in rp_out} = CalendarYears
       /\ Cardinality(rp_out) = Cardinality(CalendarYears)
       /\ \A r \in rp_out :
            /\ r.ustar_mean.den > 0
            /\ r.year \in YearsFound
                 => r.ustar_mean.num = FirstValue(r.year) * r.ustar_mean.den
            /\ (r.year \notin YearsFound /\ YearsFound # {})
                 => r.ustar_mean.num * Cardinality(YearsFound)
                      = SumOfFirst(YearsFound) * r.ustar_mean.den
            /\ YearsFound = {} => r.ustar_mean.num * 100 = 25 * r.ustar_mean.den * 100

C39_Witness ==
    /\ rp_pc = "cleaned"
    /\ rp_in.first = 1 /\ rp_in.last = 4
    /\ rp_in.cf.present /\ rp_in.cf.entries[1].kind = "nan"
    /\ rp_in.cf.entries[2] = [kind |-> "value", value |-> 20]
    /\ rp_in.cpd.present /\ rp_in.cpd.entries[1] = [kind |-> "value", value |-> 40]
    /\ rp_in.cpd.entries[2] = [kind |-> "value", value |-> 40]
    /\ rp_out = {[year |-> FirstYear - 1, ustar_mean |-> [num |-> 60, den |-> 2]],
                  [year |-> FirstYear, ustar_mean |-> [num |-> 40, den |-> 1]],
                  [year |-> FirstYear + 1, ustar_mean |-> [num |-> 20, den |-> 1]]}


=============================================================================
